---- MODULE Spec2Model ----
(***************************************************************************)
(* Coordinates for Minkowski spacetime in Cartesian coordinates            *)
(* (src/coordinates/minkowski_cartesian.cpp).                              *)
(*                                                                         *)
(* A Real is modelled by an integer.  Every face position of a block is an *)
(* even integer, so the product 0.5 * (a + b) of the constructor is exact  *)
(* and is modelled by an exact halving; sums, differences and products are *)
(* the integer ones.  Rounding of the floating-point operations is not     *)
(* modelled.  An AthenaArray of n entries is a function on 0..n-1.         *)
(***************************************************************************)
EXTENDS Integers, FiniteSets, Sequences, TLC

\* Width of the ghost margin (macro NGHOST of athena.hpp).
NGHOST == 2

\* Largest number of interior cells of a block along one axis.
MaxNx == 2

\* pb: the block; pparent_block, face_area, cell_volume: the members of the
\* Coordinates object; phase: where the object is in its life.
\* call: the last query and its arguments; out0 and out: the buffer passed to
\* it (areas, volumes or sources) before and after the call; prim0 and prim:
\* the primitive values passed, before and after; acc: the indices the last
\* operation read and wrote in each array.
\* pb0: the block as the constructor received it; built: the block as the
\* constructor returned it.
VARIABLES pb, pparent_block, face_area, cell_volume, phase,
          call, out0, out, prim0, prim, acc, pb0, built

vars == <<pb, pparent_block, face_area, cell_volume, phase,
          call, out0, out, prim0, prim, acc, pb0, built>>

(***************************************************************************)
(* Arrays.                                                                 *)
(***************************************************************************)

\* The arrays of the block and the buffers passed to the queries.
Arrays == {"x1f", "x2f", "x3f", "dx1f", "dx2f", "dx3f",
           "x1v", "x2v", "x3v", "dx1v", "dx2v", "dx3v", "out", "prim"}

\* The value an access outside an array's storage yields.  No run of a
\* well-formed block makes such an access (MemorySafe).
Indeterminate == 0 - 1000

\* a(i): the entry i of the array a.
Rd(a, i) == IF i \in DOMAIN a THEN a[i] ELSE Indeterminate

\* An array of n entries that were never assigned: entry i holds -(i+1),
\* a value no position, spacing, area or volume of a block takes.
Unset(n) == [i \in 0..(n - 1) |-> 0 - (i + 1)]

\* An array of n entries set to zero by the caller.
Zeroed(n) == [i \in 0..(n - 1) |-> 0]

\* Number of entries of an array.
Size(a) == Cardinality(DOMAIN a)

\* Storage of n entries that was never assigned: zero pages or not.
Raw(z, n) == IF z THEN Zeroed(n) ELSE Unset(n)

\* 0.5 * x, for the even x the constructor forms.
Half(x) == x \div 2

\* The indices S together with their successors: what a loop over S reads
\* of an array it indexes with i and i+1.
Succs(S) == S \cup {i + 1 : i \in S}

NoAccess == [a \in Arrays |-> {}]

(***************************************************************************)
(* The block (class Block of mesh.hpp).                                    *)
(***************************************************************************)

\* Spacing profiles of a block: every axis uniform or every axis stretched.
Profiles == {"uniform", "stretched"}

\* Position of face i of an axis: cells of width 2*axis when uniform, and
\* cell m of width 2*axis*(m+1) when stretched.  Positions are even and
\* increase with i; the widths of different axes differ.
FacePos(p, axis, i) ==
    IF p = "stretched" THEN axis * i * (i + 1) ELSE 2 * axis * i

\* Number of cells, ghost cells included, of an axis of nx interior cells.
\* An axis without extent (nx = 1, axis 2 or 3) has its one cell alone, or
\* keeps the ghost margin when the block is padded.
NCells(axis, nx, padded) ==
    IF axis = 1 \/ nx > 1 \/ padded THEN nx + 2 * NGHOST ELSE 1

\* First interior index of an axis of nx interior cells.
FirstCell(axis, nx, padded) ==
    IF axis = 1 \/ nx > 1 \/ padded THEN NGHOST ELSE 0

\* Face positions of an axis: one more than cells.
FaceArray(p, axis, n) == [i \in 0..n |-> FacePos(p, axis, i)]

\* Face spacings of an axis: dxf(i) = xf(i+1) - xf(i).
WidthArray(p, axis, n) ==
    [i \in 0..(n - 1) |-> FacePos(p, axis, i + 1) - FacePos(p, axis, i)]

\* A block of n1 x n2 x n3 interior cells as its constructor leaves it:
\* faces and face spacings set, centres and centre spacings allocated and
\* not yet assigned.
MakeBlock(n1, n2, n3, p, padded) ==
    LET c1 == NCells(1, n1, padded)
        c2 == NCells(2, n2, padded)
        c3 == NCells(3, n3, padded)
        f1 == FirstCell(1, n1, padded)
        f2 == FirstCell(2, n2, padded)
        f3 == FirstCell(3, n3, padded)
    IN  [ nx1 |-> n1, nx2 |-> n2, nx3 |-> n3,
          is |-> f1, ie |-> f1 + n1 - 1,
          js |-> f2, je |-> f2 + n2 - 1,
          ks |-> f3, ke |-> f3 + n3 - 1,
          x1f |-> FaceArray(p, 1, c1), dx1f |-> WidthArray(p, 1, c1),
          x2f |-> FaceArray(p, 2, c2), dx2f |-> WidthArray(p, 2, c2),
          x3f |-> FaceArray(p, 3, c3), dx3f |-> WidthArray(p, 3, c3),
          x1v |-> Unset(c1), dx1v |-> Unset(c1),
          x2v |-> Unset(c2), dx2v |-> Unset(c2),
          x3v |-> Unset(c3), dx3v |-> Unset(c3) ]

\* The shapes of a mesh: one-, two- or three-dimensional, of 1..MaxNx cells
\* along axis 1 and, along an extended axis 2 or 3, of MaxNx cells.
Shapes ==
    {s \in (1..MaxNx) \X {1, MaxNx} \X {1, MaxNx} : s[3] > 1 => s[2] > 1}

WellFormedBlocks ==
    {MakeBlock(s[1], s[2], s[3], p, padded) :
        s \in Shapes, p \in Profiles, padded \in BOOLEAN}

\* Bounds inverted on axis 1, or on an extended axis 2 or 3: the last index
\* of the loops lies below the first.
InvertedBlocks ==
    {[b EXCEPT !.ie = b.is - 2 * NGHOST - 1] : b \in WellFormedBlocks}
    \cup {[b EXCEPT !.je = b.js - 2 * NGHOST - 1] :
              b \in {w \in WellFormedBlocks : w.nx2 > 1}}
    \cup {[b EXCEPT !.ke = b.ks - 2 * NGHOST - 1] :
              b \in {w \in WellFormedBlocks : w.nx3 > 1}}

\* Face arrays allocated and never assigned: their entries hold whatever
\* the storage held, zero or not.
UnpopulatedBlocks ==
    {[b EXCEPT !.x1f = Raw(z, Size(b.x1f)), !.dx1f = Raw(z, Size(b.dx1f)),
               !.x2f = Raw(z, Size(b.x2f)), !.dx2f = Raw(z, Size(b.dx2f)),
               !.x3f = Raw(z, Size(b.x3f)), !.dx3f = Raw(z, Size(b.dx3f))] :
        b \in WellFormedBlocks, z \in BOOLEAN}

(***************************************************************************)
(* Coordinates::Coordinates(Block *pb)                                     *)
(***************************************************************************)

\* Lower bound of the loops over an extended axis whose first cell is s.
LoopLo(s) == s - NGHOST

\* Upper bound of the centre loop of an extended axis whose last cell is e.
CenterHi(e) == e + NGHOST

\* SpacingHi with the upper bound of the centre loop.
SpacingHiThroughLast(e) == e + NGHOST

\* Upper bound of the spacing loop of an extended axis whose last cell is e.
SpacingHi(e) == e + NGHOST - 1

\* for (i = lo; i <= hi; i++) xv(i) = 0.5 * (xf(i) + xf(i+1));
CenterLoop(xv, xf, lo, hi) ==
    [i \in DOMAIN xv |->
        IF i \in lo..hi THEN Half(Rd(xf, i) + Rd(xf, i + 1)) ELSE xv[i]]

\* SpacingLoop with the backward difference xv(i) - xv(i-1).
SpacingLoopBackward(dxv, xv, lo, hi) ==
    [i \in DOMAIN dxv |->
        IF i \in lo..hi THEN Rd(xv, i) - Rd(xv, i - 1) ELSE dxv[i]]

\* for (i = lo; i <= hi; i++) dxv(i) = xv(i+1) - xv(i);
SpacingLoop(dxv, xv, lo, hi) ==
    [i \in DOMAIN dxv |->
        IF i \in lo..hi THEN Rd(xv, i + 1) - Rd(xv, i) ELSE dxv[i]]

\* The branch of an axis without extent: xv(s) = 0.5 * (xf(s) + xf(s+1)).
SingleCenter(xv, xf, s) ==
    [i \in DOMAIN xv |->
        IF i = s THEN Half(Rd(xf, s) + Rd(xf, s + 1)) ELSE xv[i]]

\* The branch of an axis without extent: dxv(s) = dxf(s).
SingleSpacing(dxv, dxf, s) ==
    [i \in DOMAIN dxv |-> IF i = s THEN Rd(dxf, s) ELSE dxv[i]]

\* AxisCenters without the branch of an axis without extent.
AxisCentersAlwaysLoop(extended, xv, xf, s, e) ==
    CenterLoop(xv, xf, LoopLo(s), CenterHi(e))

\* The centres of an axis after construction.
AxisCenters(extended, xv, xf, s, e) ==
    IF extended THEN CenterLoop(xv, xf, LoopLo(s), CenterHi(e))
                ELSE SingleCenter(xv, xf, s)

\* The centre spacings of an axis after construction, xvNew being the
\* centres the constructor has just written.
AxisSpacings(extended, dxv, xvNew, dxf, s, e) ==
    IF extended THEN SpacingLoop(dxv, xvNew, LoopLo(s), SpacingHi(e))
                ELSE SingleSpacing(dxv, dxf, s)

\* n_cells with one ghost margin instead of two.
n_cellsOneMargin(b) == b.nx1 + NGHOST

\* int n_cells = pb->block_size.nx1 + 2*NGHOST;
n_cells(b) == b.nx1 + 2 * NGHOST

\* The block after the constructor has run on it.
Constructed(b) ==
    LET x1 == AxisCenters(TRUE, b.x1v, b.x1f, b.is, b.ie)
        x2 == AxisCenters(b.nx2 # 1, b.x2v, b.x2f, b.js, b.je)
        x3 == AxisCenters(b.nx3 # 1, b.x3v, b.x3f, b.ks, b.ke)
    IN  [b EXCEPT
            !.x1v = x1,
            !.dx1v = AxisSpacings(TRUE, b.dx1v, x1, b.dx1f, b.is, b.ie),
            !.x2v = x2,
            !.dx2v = AxisSpacings(b.nx2 # 1, b.dx2v, x2, b.dx2f, b.js, b.je),
            !.x3v = x3,
            !.dx3v = AxisSpacings(b.nx3 # 1, b.dx3v, x3, b.dx3f, b.ks, b.ke)]

\* The indices of each array the constructor reads.
ConstructReads(b) ==
    [a \in Arrays |->
        CASE a = "x1f" -> Succs(LoopLo(b.is)..CenterHi(b.ie))
          [] a = "x1v" -> Succs(LoopLo(b.is)..SpacingHi(b.ie))
          [] a = "x2f" -> IF b.nx2 # 1 THEN Succs(LoopLo(b.js)..CenterHi(b.je))
                                        ELSE {b.js, b.js + 1}
          [] a = "x2v" -> IF b.nx2 # 1 THEN Succs(LoopLo(b.js)..SpacingHi(b.je))
                                        ELSE {}
          [] a = "dx2f" -> IF b.nx2 # 1 THEN {} ELSE {b.js}
          [] a = "x3f" -> IF b.nx3 # 1 THEN Succs(LoopLo(b.ks)..CenterHi(b.ke))
                                        ELSE {b.ks, b.ks + 1}
          [] a = "x3v" -> IF b.nx3 # 1 THEN Succs(LoopLo(b.ks)..SpacingHi(b.ke))
                                        ELSE {}
          [] a = "dx3f" -> IF b.nx3 # 1 THEN {} ELSE {b.ks}
          [] OTHER -> {}]

\* The indices of each array the constructor writes.
ConstructWrites(b) ==
    [a \in Arrays |->
        CASE a = "x1v" -> LoopLo(b.is)..CenterHi(b.ie)
          [] a = "dx1v" -> LoopLo(b.is)..SpacingHi(b.ie)
          [] a = "x2v" -> IF b.nx2 # 1 THEN LoopLo(b.js)..CenterHi(b.je) ELSE {b.js}
          [] a = "dx2v" -> IF b.nx2 # 1 THEN LoopLo(b.js)..SpacingHi(b.je) ELSE {b.js}
          [] a = "x3v" -> IF b.nx3 # 1 THEN LoopLo(b.ks)..CenterHi(b.ke) ELSE {b.ks}
          [] a = "dx3v" -> IF b.nx3 # 1 THEN LoopLo(b.ks)..SpacingHi(b.ke) ELSE {b.ks}
          [] OTHER -> {}]

NoCall == [op |-> "none", k |-> 0, j |-> 0, il |-> 0, iu |-> 0]

Construct ==
    /\ phase = "new"
    /\ pparent_block' = "pb"
    /\ pb' = Constructed(pb)
    /\ face_area' = Unset(n_cells(pb))
    /\ cell_volume' = Unset(n_cells(pb))
    /\ acc' = [rd |-> ConstructReads(pb), wr |-> ConstructWrites(pb)]
    /\ phase' = "constructed"
    /\ pb0' = pb
    /\ built' = pb'
    /\ UNCHANGED <<call, out0, out, prim0, prim>>

(***************************************************************************)
(* The queries.                                                            *)
(***************************************************************************)

\* LoopRange with the loop running one index past iu.
LoopRangePastEnd(il, iu) == il..(iu + 1)

\* for (int i = il; i <= iu; i++): the indices the loop of a query visits.
LoopRange(il, iu) == il..iu

\* Area1Face: areas(i) = dx2f(j) * dx3f(k) for i in il..iu.
Area1Face(k, j, il, iu, areas, b) ==
    [i \in DOMAIN areas |->
        IF i \in LoopRange(il, iu) THEN Rd(b.dx2f, j) * Rd(b.dx3f, k)
                                   ELSE areas[i]]

\* Area2Face with the spacing of axis 2 in place of that of axis 3.
Area2FaceWithDeltaY(k, j, il, iu, areas, b) ==
    [i \in DOMAIN areas |->
        IF i \in LoopRange(il, iu) THEN Rd(b.dx1f, i) * Rd(b.dx2f, j)
                                   ELSE areas[i]]

\* Area2Face: areas(i) = dx1f(i) * dx3f(k) for i in il..iu.
Area2Face(k, j, il, iu, areas, b) ==
    [i \in DOMAIN areas |->
        IF i \in LoopRange(il, iu) THEN Rd(b.dx1f, i) * Rd(b.dx3f, k)
                                   ELSE areas[i]]

\* Area3Face: areas(i) = dx1f(i) * dx2f(j) for i in il..iu.
Area3Face(k, j, il, iu, areas, b) ==
    [i \in DOMAIN areas |->
        IF i \in LoopRange(il, iu) THEN Rd(b.dx1f, i) * Rd(b.dx2f, j)
                                   ELSE areas[i]]

\* CellVolume without the factor delta_z.
CellVolumeWithoutDeltaZ(k, j, il, iu, volumes, b) ==
    [i \in DOMAIN volumes |->
        IF i \in LoopRange(il, iu) THEN Rd(b.dx1f, i) * Rd(b.dx2f, j)
                                   ELSE volumes[i]]

\* CellVolume: volumes(i) = dx1f(i) * dx2f(j) * dx3f(k) for i in il..iu.
CellVolume(k, j, il, iu, volumes, b) ==
    [i \in DOMAIN volumes |->
        IF i \in LoopRange(il, iu)
            THEN Rd(b.dx1f, i) * Rd(b.dx2f, j) * Rd(b.dx3f, k)
            ELSE volumes[i]]

\* CoordinateSourceTerms clearing the sources it is given.
SourceTermsClearing(k, j, primIn, sources) ==
    [i \in DOMAIN sources |-> 0]

\* CoordinateSourceTerms: the body is a bare return.
CoordinateSourceTerms(k, j, primIn, sources) == sources

\* What CoordinateSourceTerms leaves in prim.
SourceTermsPrim(k, j, primIn, sources) == primIn

\* BlockAfterQuery with the loop assigning through the reference delta_x.
BlockAfterQueryThroughDeltaX(op, k, j, il, iu, b) ==
    [b EXCEPT !.dx1f = [i \in DOMAIN b.dx1f |->
                           IF i \in il..iu /\ op # "Area1Face"
                              THEN b.dx1f[i] * Rd(b.dx3f, k) ELSE b.dx1f[i]]]

\* The block after a query: no query assigns to an array of the block.
BlockAfterQuery(op, k, j, il, iu, b) == b

\* The indices of each array a query reads.  A reference bound before the
\* loop (delta_y, delta_z) counts as a read of the entry it names.
QueryReads(op, k, j, il, iu) ==
    [a \in Arrays |->
        CASE a = "dx1f" -> IF op \in {"Area2Face", "Area3Face", "CellVolume"}
                              THEN LoopRange(il, iu) ELSE {}
          [] a = "dx2f" -> IF op \in {"Area1Face", "Area3Face", "CellVolume"}
                              THEN {j} ELSE {}
          [] a = "dx3f" -> IF op \in {"Area1Face", "Area2Face", "CellVolume"}
                              THEN {k} ELSE {}
          [] OTHER -> {}]

\* The indices of each array a query writes.
QueryWrites(op, k, j, il, iu) ==
    [a \in Arrays |->
        IF a = "out" /\ op # "CoordinateSourceTerms" THEN LoopRange(il, iu)
                                                      ELSE {}]

\* The transverse indices a caller passes: the first ghost cell and the
\* last interior cell of axes 3 and 2 (the one cell of an axis without
\* extent).
KIndices(b) == {k \in DOMAIN b.dx3f : k = 0 \/ k = b.ke}
JIndices(b) == {j \in DOMAIN b.dx2f : j = 0 \/ j = b.je}

\* The ranges a caller passes: il..iu within the cells of axis 1, the
\* empty range iu = il - 1 included.
Ranges(b) ==
    {r \in (LoopLo(b.is)..CenterHi(b.ie)) \X ((LoopLo(b.is) - 1)..CenterHi(b.ie)) :
        r[1] <= r[2] + 1}

\* The content of the row buffer a caller passes to an area or volume
\* query: entries never assigned, each distinct from every other.
RowBuffers(b) == {Unset(n_cells(b))}

\* The contents of the source buffer a caller passes: zeroed, as the
\* callers are expected to, or not.
SourceBuffers(b) == {Zeroed(n_cells(b)), Unset(n_cells(b))}

\* The contents of the primitive values of a row.
PrimBuffers(b) ==
    {[i \in 0..(n_cells(b) - 1) |-> 1], [i \in 0..(n_cells(b) - 1) |-> i + 2]}

\* One call of an area or volume query on the constructed object.
Query(op, k, j, il, iu, buf, result) ==
    /\ phase = "constructed"
    /\ call' = [op |-> op, k |-> k, j |-> j, il |-> il, iu |-> iu]
    /\ out0' = buf
    /\ out' = result
    /\ prim0' = << >>
    /\ prim' = << >>
    /\ pb' = BlockAfterQuery(op, k, j, il, iu, pb)
    /\ acc' = [rd |-> QueryReads(op, k, j, il, iu),
               wr |-> QueryWrites(op, k, j, il, iu)]
    /\ UNCHANGED <<pparent_block, face_area, cell_volume, phase, pb0, built>>

CallArea1Face ==
    \E k \in KIndices(pb), j \in JIndices(pb), r \in Ranges(pb), buf \in RowBuffers(pb) :
        Query("Area1Face", k, j, r[1], r[2], buf,
              Area1Face(k, j, r[1], r[2], buf, pb))

CallArea2Face ==
    \E k \in KIndices(pb), j \in JIndices(pb), r \in Ranges(pb), buf \in RowBuffers(pb) :
        Query("Area2Face", k, j, r[1], r[2], buf,
              Area2Face(k, j, r[1], r[2], buf, pb))

CallArea3Face ==
    \E k \in KIndices(pb), j \in JIndices(pb), r \in Ranges(pb), buf \in RowBuffers(pb) :
        Query("Area3Face", k, j, r[1], r[2], buf,
              Area3Face(k, j, r[1], r[2], buf, pb))

CallCellVolume ==
    \E k \in KIndices(pb), j \in JIndices(pb), r \in Ranges(pb), buf \in RowBuffers(pb) :
        Query("CellVolume", k, j, r[1], r[2], buf,
              CellVolume(k, j, r[1], r[2], buf, pb))

CallCoordinateSourceTerms ==
    /\ phase = "constructed"
    /\ \E k \in KIndices(pb), j \in JIndices(pb),
          p \in PrimBuffers(pb),
          s \in SourceBuffers(pb) \cup
                (IF call.op = "CoordinateSourceTerms" THEN {out} ELSE {}) :
        /\ call' = [op |-> "CoordinateSourceTerms", k |-> k, j |-> j,
                    il |-> 0, iu |-> 0]
        /\ out0' = s
        /\ out' = CoordinateSourceTerms(k, j, p, s)
        /\ prim0' = p
        /\ prim' = SourceTermsPrim(k, j, p, s)
        /\ pb' = BlockAfterQuery("CoordinateSourceTerms", k, j, 0, 0, pb)
        /\ acc' = [rd |-> QueryReads("CoordinateSourceTerms", k, j, 0, 0),
                   wr |-> QueryWrites("CoordinateSourceTerms", k, j, 0, 0)]
    /\ UNCHANGED <<pparent_block, face_area, cell_volume, phase, pb0, built>>

\* Coordinates::~Coordinates(): the scratch arrays are deleted.
Destroy ==
    /\ phase = "constructed"
    /\ phase' = "destroyed"
    /\ face_area' = << >>
    /\ cell_volume' = << >>
    /\ UNCHANGED <<pb, pparent_block, call, out0, out, prim0, prim, acc,
                   pb0, built>>

(***************************************************************************)
(* Specification.                                                          *)
(***************************************************************************)

InitRest ==
    /\ pparent_block = "null"
    /\ face_area = << >>
    /\ cell_volume = << >>
    /\ phase = "new"
    /\ call = NoCall
    /\ out0 = << >>
    /\ out = << >>
    /\ prim0 = << >>
    /\ prim = << >>
    /\ acc = [rd |-> NoAccess, wr |-> NoAccess]
    /\ pb0 = pb
    /\ built = pb

Init ==
    /\ pb \in WellFormedBlocks
    /\ InitRest

Next ==
    \/ Construct
    \/ CallArea1Face
    \/ CallArea2Face
    \/ CallArea3Face
    \/ CallCellVolume
    \/ CallCoordinateSourceTerms
    \/ Destroy

Spec == Init /\ [][Next]_vars

\* The runs that start from any block, well formed or not.
InitAny ==
    /\ pb \in WellFormedBlocks \cup InvertedBlocks \cup UnpopulatedBlocks
    /\ InitRest

SpecAny == InitAny /\ [][Next]_vars

(***************************************************************************)
(* Properties.                                                             *)
(***************************************************************************)

HasRun == phase # "new"

AreaOps == {"Area1Face", "Area2Face", "Area3Face"}

RangeOps == AreaOps \cup {"CellVolume"}

\* The axes of a block with their arrays, first and last interior index
\* and number of interior cells.
Axis(b, n) ==
    CASE n = 1 -> [xf |-> b.x1f, dxf |-> b.dx1f, xv |-> b.x1v, dxv |-> b.dx1v,
                   s |-> b.is, e |-> b.ie, nx |-> b.nx1, extended |-> TRUE]
      [] n = 2 -> [xf |-> b.x2f, dxf |-> b.dx2f, xv |-> b.x2v, dxv |-> b.dx2v,
                   s |-> b.js, e |-> b.je, nx |-> b.nx2, extended |-> b.nx2 > 1]
      [] n = 3 -> [xf |-> b.x3f, dxf |-> b.dx3f, xv |-> b.x3v, dxv |-> b.dx3v,
                   s |-> b.ks, e |-> b.ke, nx |-> b.nx3, extended |-> b.nx3 > 1]

\* C1: after construction, on every extended axis (axis 1 always, axis 2
\* when nx2 > 1, axis 3 when nx3 > 1) the centre xv(i) is 0.5*(xf(i)+xf(i+1))
\* for every i in [s-NGHOST, e+NGHOST] and the spacing dxv(i) is
\* xv(i+1)-xv(i) for every i in [s-NGHOST, e+NGHOST-1]; the constructor
\* assigns the centres of exactly the first range and the spacings of exactly
\* the second: every other entry, the spacing at e+NGHOST among them, holds
\* what it held before construction.
CentersAndSpacingsOfExtendedAxes ==
    HasRun =>
        \A n \in 1..3 :
            LET a == Axis(pb, n)
                a0 == Axis(pb0, n)
                lo == a.s - NGHOST
                hi == a.e + NGHOST
            IN  a.extended =>
                    /\ (lo..hi) \subseteq DOMAIN a.xv
                    /\ \A i \in DOMAIN a.xv :
                         IF i \in lo..hi
                            THEN /\ 2 * a.xv[i] = a.xf[i] + a.xf[i + 1]
                                 /\ a.xv[i] # a0.xv[i]
                            ELSE a.xv[i] = a0.xv[i]
                    /\ \A i \in DOMAIN a.dxv :
                         IF i \in lo..(hi - 1)
                            THEN /\ a.dxv[i] = a.xv[i + 1] - a.xv[i]
                                 /\ a.dxv[i] # a0.dxv[i]
                            ELSE a.dxv[i] = a0.dxv[i]
                    /\ a.dxv[hi] = a0.dxv[hi]

\* Witness of C1: a block extended along its three axes has been constructed.
WitnessExtendedConstructed ==
    /\ phase = "constructed"
    /\ call.op = "none"
    /\ pb.nx2 > 1
    /\ pb.nx3 > 1
    /\ pb.dx1f[pb.is] # pb.dx1f[pb.ie + NGHOST]

\* The product of the spacings of the two axes other than the one the face
\* of the query is orthogonal to, at cell i of the row (k, j).
FaceArea(op, k, j, i) ==
    CASE op = "Area1Face" -> pb.dx2f[j] * pb.dx3f[k]
      [] op = "Area2Face" -> pb.dx1f[i] * pb.dx3f[k]
      [] op = "Area3Face" -> pb.dx1f[i] * pb.dx2f[j]

\* C2 as stated: after an area query every entry of the range is the product
\* of the two complementary spacings and all the entries of the range are
\* equal, whatever the face spacings of axis 1.
AreasUniformAlongRow ==
    call.op \in AreaOps =>
        /\ \A i \in call.il..call.iu :
             out[i] = FaceArea(call.op, call.k, call.j, i)
        /\ \A i, m \in call.il..call.iu : out[i] = out[m]

\* C2 amended: after an area query every entry i of the range is the product
\* of the two complementary face spacings, dx2f(j)*dx3f(k) for Area1Face,
\* dx1f(i)*dx3f(k) for Area2Face and dx1f(i)*dx2f(j) for Area3Face; the
\* entries of the range are all equal for Area1Face, and for Area2Face and
\* Area3Face when dx1f is the same at every index of the range.
AreasAreProducts ==
    call.op \in AreaOps =>
        /\ \A i \in call.il..call.iu :
             out[i] = FaceArea(call.op, call.k, call.j, i)
        /\ (\/ call.op = "Area1Face"
            \/ \A i, m \in call.il..call.iu : pb.dx1f[i] = pb.dx1f[m])
           => \A i, m \in call.il..call.iu : out[i] = out[m]

\* Witness of C2: Area2Face over a range along which dx1f varies.
WitnessAreaOverStretchedRow ==
    /\ call.op = "Area2Face"
    /\ call.il < call.iu
    /\ pb.dx1f[call.il] # pb.dx1f[call.iu]
    /\ pb.dx2f[call.j] # pb.dx3f[call.k]

\* C3: after CellVolume(k, j, il, iu, volumes) every entry i of the range is
\* dx1f(i) * dx2f(j) * dx3f(k), at interior and ghost indices alike.
VolumesAreProducts ==
    call.op = "CellVolume" =>
        \A i \in call.il..call.iu :
            out[i] = pb.dx1f[i] * pb.dx2f[call.j] * pb.dx3f[call.k]

\* Witness of C3: CellVolume over the whole row, ghost cells included, of a
\* stretched three-dimensional block.
WitnessVolumeOverWholeRow ==
    /\ call.op = "CellVolume"
    /\ call.il = pb.is - NGHOST
    /\ call.iu = pb.ie + NGHOST
    /\ pb.nx3 > 1
    /\ pb.dx1f[call.il] # pb.dx1f[call.iu]

\* C4: CoordinateSourceTerms changes nothing: the sources, the primitive
\* values and the block are after the call what they were before it, whether
\* sources was zeroed or not and also when it is called again on the same
\* buffer.
SourceTermsChangeNothing ==
    call.op = "CoordinateSourceTerms" =>
        /\ out = out0
        /\ prim = prim0
        /\ pb = built

\* Witness of C4: CoordinateSourceTerms called on a buffer that was not
\* zeroed.
WitnessSourceTermsOnUnzeroed ==
    /\ call.op = "CoordinateSourceTerms"
    /\ out0 = Unset(pb.nx1 + 2 * NGHOST)
    /\ \E i \in DOMAIN prim0 : prim0[i] # prim0[0]

\* C5: an area or volume query over [il, iu] assigns only entries of the
\* buffer with il <= i <= iu: every other entry holds its value of before the
\* call, and an empty range (il > iu) leaves the buffer as it was.
OutsideRangeUntouched ==
    call.op \in RangeOps =>
        /\ DOMAIN out = DOMAIN out0
        /\ \A i \in DOMAIN out :
             (i < call.il \/ i > call.iu) => out[i] = out0[i]
        /\ call.il > call.iu => out = out0

\* Witness of C5: a query over a range with entries of the buffer below and
\* above it.
WitnessInnerRange ==
    /\ call.op \in RangeOps
    /\ 0 < call.il
    /\ call.il <= call.iu
    /\ call.iu + 1 \in DOMAIN out
    /\ out[call.il] # out0[call.il]

\* C6: when axis 2 has one cell (nx2 = 1) construction sets x2v(js) to
\* 0.5*(x2f(js)+x2f(js+1)) and dx2v(js) to x2f(js+1)-x2f(js) and assigns no
\* other entry of x2v or dx2v; the same for axis 3 with ks when nx3 = 1.
DegenerateAxes ==
    HasRun =>
        \A n \in 2..3 :
            LET a == Axis(pb, n)
                a0 == Axis(pb0, n)
            IN  a.nx = 1 =>
                    /\ 2 * a.xv[a.s] = a.xf[a.s] + a.xf[a.s + 1]
                    /\ a.dxv[a.s] = a.xf[a.s + 1] - a.xf[a.s]
                    /\ \A i \in DOMAIN a.xv : i # a.s => a.xv[i] = a0.xv[i]
                    /\ \A i \in DOMAIN a.dxv : i # a.s => a.dxv[i] = a0.dxv[i]

\* Witness of C6: a constructed block whose axis 2 has one cell between
\* ghost cells.
WitnessDegenerateWithGhosts ==
    /\ phase = "constructed"
    /\ pb.nx2 = 1
    /\ Size(pb.x2v) > 1
    /\ pb.x2v[pb.js] # pb0.x2v[pb.js]
    /\ pb.dx2v[pb.js] # pb0.dx2v[pb.js]

\* a(lo) + ... + a(hi).
RECURSIVE SumOver(_, _, _)
SumOver(a, lo, hi) == IF lo > hi THEN 0 ELSE a[lo] + SumOver(a, lo + 1, hi)

\* C7 as stated: after construction, on every extended axis, the spacings
\* dxv(i) of the interior cells add up to xf(e+1) - xf(s).
SpacingsSumToExtent ==
    HasRun =>
        \A n \in 1..3 :
            LET a == Axis(pb, n)
            IN  a.extended =>
                    SumOver(a.dxv, a.s, a.e) = a.xf[a.e + 1] - a.xf[a.s]

\* C7 amended: after construction, on every extended axis, the spacings
\* dxv(i) of the interior cells add up to xv(e+1) - xv(s), which exceeds
\* the extent xf(e+1) - xf(s) by half the difference between the width of
\* the first ghost cell after the interior and the width of the first
\* interior cell; the sum is the extent when those two widths are equal.
SpacingsSumToCenterSpan ==
    HasRun =>
        \A n \in 1..3 :
            LET a == Axis(pb, n)
                sum == SumOver(a.dxv, a.s, a.e)
                extent == a.xf[a.e + 1] - a.xf[a.s]
                after == a.xf[a.e + 2] - a.xf[a.e + 1]
                first == a.xf[a.s + 1] - a.xf[a.s]
            IN  a.extended =>
                    /\ sum = a.xv[a.e + 1] - a.xv[a.s]
                    /\ 2 * (sum - extent) = after - first
                    /\ after = first => sum = extent

\* Witness of C7: a constructed block whose first ghost cell after the
\* interior of axis 1 is wider than the first interior cell.
WitnessUnequalEndCells ==
    /\ phase = "constructed"
    /\ pb.nx1 > 1
    /\ pb.x1f[pb.ie + 2] - pb.x1f[pb.ie + 1] # pb.x1f[pb.is + 1] - pb.x1f[pb.is]

\* The bounds of an axis are inverted.
Inverted(b) ==
    \/ b.ie + NGHOST < b.is - NGHOST
    \/ b.nx2 # 1 /\ b.je + NGHOST < b.js - NGHOST
    \/ b.nx3 # 1 /\ b.ke + NGHOST < b.ks - NGHOST

\* The face arrays were never assigned.
Unpopulated(b) == \E z \in BOOLEAN : b.x1f = Raw(z, Size(b.x1f))

\* C8: construction on an inconsistent block (bounds inverted on an axis, or
\* face arrays not populated) does not complete.
InconsistentBlockNotConstructed ==
    (Inverted(pb) \/ Unpopulated(pb)) => phase = "new"

\* The indices the last operation accessed in array a.
Accessed(a) == acc.rd[a] \cup acc.wr[a]

\* The greatest element of a non-empty set of integers.
Greatest(S) == CHOOSE x \in S : \A y \in S : y <= x

\* C9: on a well-formed block construction and every query over a range
\* within [is-NGHOST, ie+NGHOST] access only entries the arrays have: the
\* scratch buffers have nx1+2*NGHOST entries, which cover [is-NGHOST,
\* ie+NGHOST]; the highest face the constructor reads is ie+NGHOST+1; a query
\* over the one-element range at is-NGHOST accesses index is-NGHOST only.
MemorySafe ==
    /\ \A a \in Arrays \ {"out", "prim"} : Accessed(a) \subseteq DOMAIN pb[a]
    /\ Accessed("out") \subseteq DOMAIN out
    /\ Accessed("prim") \subseteq DOMAIN prim
    /\ phase = "constructed" =>
        /\ DOMAIN face_area = 0..(pb.nx1 + 2 * NGHOST - 1)
        /\ DOMAIN cell_volume = 0..(pb.nx1 + 2 * NGHOST - 1)
        /\ ((pb.is - NGHOST)..(pb.ie + NGHOST)) \subseteq DOMAIN face_area
        /\ ((pb.is - NGHOST)..(pb.ie + NGHOST)) \subseteq DOMAIN cell_volume
        /\ call.op \in RangeOps => DOMAIN out = DOMAIN face_area
    /\ (phase = "constructed" /\ call.op = "none") =>
        /\ Greatest(acc.rd["x1f"]) = pb.ie + NGHOST + 1
        /\ pb.ie + NGHOST + 1 \in DOMAIN pb.x1f
    /\ (call.op \in RangeOps /\ call.il = pb.is - NGHOST /\ call.iu = call.il) =>
        /\ Accessed("out") = {pb.is - NGHOST}
        /\ Accessed("dx1f") \subseteq {pb.is - NGHOST}

\* Witness of C9: a volume query over the one-element range at the first
\* ghost index.
WitnessFirstGhostQuery ==
    /\ call.op = "CellVolume"
    /\ call.il = pb.is - NGHOST
    /\ call.iu = call.il
    /\ Accessed("dx1f") = {0}
    /\ out[0] # out0[0]

\* C10: the centre and centre-spacing arrays are assigned by construction
\* only: after every query that follows construction they, and the face
\* arrays of the block, hold what they held when construction returned, and
\* the members of the object hold what construction left in them, so that no
\* query has anything of an earlier one to depend on.
BlockFixedAfterConstruction ==
    HasRun =>
        /\ pb = built
        /\ pparent_block = "pb"
        /\ phase = "constructed" =>
             /\ face_area = Unset(pb.nx1 + 2 * NGHOST)
             /\ cell_volume = Unset(pb.nx1 + 2 * NGHOST)

\* Witness of C10: a query has run on the constructed object.
WitnessQueryAfterConstruction ==
    /\ phase = "constructed"
    /\ call.op \in RangeOps
    /\ call.il <= call.iu
    /\ pb.x1v # pb0.x1v

====
